---- MODULE Spec2Model ----
(***************************************************************************)
(* A model of ptsim.c: a simulator of paged virtual memory.  All state of  *)
(* the program is the byte array mem[MEM_SIZE]; page 0 holds the free-page *)
(* map (bytes 0..PTP_OFFSET-1) and the page-table-pointer table (bytes     *)
(* PTP_OFFSET..), every other page is a page table or a data page.         *)
(*                                                                         *)
(* mem is kept sparse above page 0: its domain is 0..PAGE_SIZE-1 together  *)
(* with the addresses of the other pages that hold a nonzero byte; an       *)
(* address of the array outside the domain holds 0.                        *)
(***************************************************************************)
EXTENDS Integers, Sequences, FiniteSets, TLC

\* ------------------------------------------------------------ constants
MEM_SIZE == 16384
PAGE_SIZE == 256
PAGE_COUNT == 64
PAGE_SHIFT == 8
PTP_OFFSET == 64

\* ------------------------------------------------------------ bounds
\* process ids the command stream uses: 0..MaxProc-1
MaxProc == 2
\* small page counts given to np: 0..MaxPages
MaxPages == 1
\* offsets of the virtual addresses given to sb and lb: 0..MaxOffset
MaxOffset == 0
\* the length of the command streams that use the large page counts, or every
\* process id
MaxCmds == 3
\* the length of the other command streams
MaxStream == 9

Procs == 0 .. (MaxProc - 1)
SmallCounts == 0 .. MaxPages
\* the page counts that take all free pages of the initial memory, and one more
BigCounts == {PTP_OFFSET - 2, PTP_OFFSET - 1}
\* virtual addresses given to sb and lb: pages 0..MaxPages-1, offsets 0..MaxOffset
VAddrs == {i * PAGE_SIZE + o : i \in 0 .. (MaxPages - 1), o \in 0 .. MaxOffset}
\* byte values given to sb
StoreVals == {2, 3, PTP_OFFSET + 1}
\* virtual addresses given to sb and lb by any process id: the first page, the
\* first page no process was created with and the last page of the 16-bit
\* range; offsets of the first byte and of a directory byte
AnyVAddrs ==
    {i * PAGE_SIZE + o : i \in {0, MaxPages, PAGE_SIZE - 1},
                         o \in {0, PTP_OFFSET + 1}}
\* the bytes a read past the end of mem may yield
Garbage == {0, 1, 255}

\* ------------------------------------------------------------ C integers
\* a | b, bit by bit; where the low byte of a is 0 the low byte of the result is
\* that of b, and the step is taken a byte at a time
RECURSIVE BitOr(_, _)
BitOr(a, b) ==
    IF a = 0 THEN b
    ELSE IF b = 0 THEN a
    ELSE IF a % 256 = 0 THEN (b % 256) + 256 * BitOr(a \div 256, b \div 256)
    ELSE (IF a % 2 = 1 \/ b % 2 = 1 THEN 1 ELSE 0) + 2 * BitOr(a \div 2, b \div 2)

\* a & b, bit by bit
RECURSIVE BitAnd(_, _)
BitAnd(a, b) ==
    IF a = 0 \/ b = 0 THEN 0
    ELSE (IF a % 2 = 1 /\ b % 2 = 1 THEN 1 ELSE 0) + 2 * BitAnd(a \div 2, b \div 2)

ShiftLeft(a, n) == a * (2 ^ n)

ShiftRight(a, n) == a \div (2 ^ n)

\* ------------------------------------------------------------ memory
\* mem[a] for an address inside the array
MemRead(m, a) ==
    IF a < PAGE_SIZE THEN m[a]
    ELSE IF a \in DOMAIN m THEN m[a] ELSE 0

\* mem[a] = v for an address inside the array (v is cut to an unsigned char)
MemWrite(m, a, v) ==
    LET b == v % 256 IN
    IF a < PAGE_SIZE THEN [m EXCEPT ![a] = b]
    ELSE IF a \in DOMAIN m
         THEN IF b # 0 THEN [m EXCEPT ![a] = b]
              ELSE [x \in (DOMAIN m) \ {a} |-> m[x]]
         ELSE IF b # 0 THEN (a :> b) @@ m ELSE m

\* A read of mem[a] where a may lie past the end of the array: such a read is
\* undefined behaviour and yields the byte oob, which the caller draws freely.
Load(m, a, oob) == IF a < MEM_SIZE THEN MemRead(m, a) ELSE oob

\* A write of mem[a] where a may lie past the end of the array: such a write
\* lands outside the array and leaves every byte of mem as it was.
Store(m, a, v) == IF a < MEM_SIZE THEN MemWrite(m, a, v) ELSE m

\* get_address with the page shifted one bit short
get_address_ShortShift(page, offset) ==
    BitOr(ShiftLeft(page, PAGE_SHIFT - 1), offset)

get_address(page, offset) == BitOr(ShiftLeft(page, PAGE_SHIFT), offset)

\* memset(mem, 0, MEM_SIZE), then the zero page marked allocated
initialize_mem == MemWrite([x \in 0 .. (PAGE_SIZE - 1) |-> 0], get_address(0, 0), 1)

get_page_table(m, proc_num) == MemRead(m, get_address(0, PTP_OFFSET + proc_num))

set_page_table(m, proc_num, page) ==
    MemWrite(m, get_address(0, PTP_OFFSET + proc_num), page)

\* ------------------------------------------------------------ allocator
\* The loops of the program are unrolled by halving their index range: the
\* iterations lo..hi-1 run in increasing order, each on the memory the one
\* before it left, and a break or return ends the ones after it.

\* the element of a one-element set
Only(S) == CHOOSE x \in S : TRUE

\* The scan of allocate_next_page over the indices lo..hi-1: the first index
\* whose byte is 0, or -1.
RECURSIVE AllocScan(_, _, _)
AllocScan(m, lo, hi) ==
    IF lo >= hi THEN -1
    ELSE IF hi - lo = 1 THEN (IF MemRead(m, lo) = 0 THEN lo ELSE -1)
    ELSE LET mid == (lo + hi) \div 2
             page == AllocScan(m, lo, mid)
         IN  IF page # -1 THEN page ELSE AllocScan(m, mid, hi)

\* allocate_next_page without its break: every free index is marked and the
\* last one is returned
allocate_next_page_NoBreak(m) ==
    LET free == {i \in 0 .. (PTP_OFFSET - 1) : MemRead(m, i) = 0}
    IN  [mem |-> [x \in DOMAIN m |-> IF x \in free THEN 1 ELSE m[x]],
         page |-> IF free = {} THEN -1 ELSE CHOOSE i \in free : \A j \in free : j <= i]

\* The memory afterwards and the page returned (-1 when none is free).
allocate_next_page(m) ==
    LET page == AllocScan(m, 0, PTP_OFFSET)
    IN  [mem |-> IF page = -1 THEN m ELSE MemWrite(m, page, 1), page |-> page]

\* ------------------------------------------------------------ new_process
\* What one call of allocate_next_page did: the indices that were free before
\* it, the page it returned, the byte it left at that index, and whether every
\* other byte of memory is as it was.
AllocRecord(m, a) ==
    [free |-> {i \in 0 .. (PTP_OFFSET - 1) : MemRead(m, i) = 0},
     page |-> a.page,
     mark |-> IF a.page = -1 THEN 0 ELSE MemRead(a.mem, a.page),
     rest_same |-> IF a.page = -1 THEN a.mem = m
                   ELSE MemWrite(a.mem, a.page, 0) = MemWrite(m, a.page, 0)]

\* One iteration of the data-page loop of new_process.  st holds the memory,
\* "ok" or the out-of-memory report that ended the call, and the trace of the
\* allocator calls made so far.
NewProcIter(st, page_table, i) ==
    LET a == allocate_next_page(st.mem)
        log == Append(st.allocs, AllocRecord(st.mem, a))
    IN  IF a.page = -1
        THEN [mem |-> a.mem, result |-> "OOM data page", allocs |-> log]
        ELSE [mem |-> MemWrite(a.mem, get_address(page_table, i), a.page),
              result |-> "ok", allocs |-> log]

\* The iterations lo..hi-1 of the data-page loop of new_process.
RECURSIVE NewProcLoop(_, _, _, _)
NewProcLoop(st, page_table, lo, hi) ==
    IF lo >= hi \/ st.result # "ok" THEN st
    ELSE IF hi - lo = 1 THEN NewProcIter(st, page_table, lo)
    ELSE LET mid == (lo + hi) \div 2
         IN  NewProcLoop(NewProcLoop(st, page_table, lo, mid), page_table, mid, hi)

\* new_process that records the page table before it tests the allocation
new_process_DirFirst(m, proc_num, page_count) ==
    LET a == allocate_next_page(m)
        log == <<AllocRecord(m, a)>>
        m1 == set_page_table(a.mem, proc_num, a.page)
    IN  IF a.page = -1
        THEN [mem |-> m1, result |-> "OOM page table", allocs |-> log]
        ELSE NewProcLoop([mem |-> m1, result |-> "ok", allocs |-> log],
                         a.page, 0, page_count)

\* new_process that gives back what it allocated when a data page is refused
new_process_Rollback(m, proc_num, page_count) ==
    LET a == allocate_next_page(m)
        log == <<AllocRecord(m, a)>>
        r == NewProcLoop([mem |-> set_page_table(a.mem, proc_num, a.page),
                          result |-> "ok", allocs |-> log],
                         a.page, 0, page_count)
    IN  IF a.page = -1
        THEN [mem |-> a.mem, result |-> "OOM page table", allocs |-> log]
        ELSE IF r.result = "ok" THEN r
        ELSE [mem |-> m, result |-> r.result, allocs |-> r.allocs]

new_process(m, proc_num, page_count) ==
    LET a == allocate_next_page(m)
        log == <<AllocRecord(m, a)>>
    IN  IF a.page = -1
        THEN [mem |-> a.mem, result |-> "OOM page table", allocs |-> log]
        ELSE NewProcLoop([mem |-> set_page_table(a.mem, proc_num, a.page),
                          result |-> "ok", allocs |-> log],
                         a.page, 0, page_count)

\* ------------------------------------------------------------ kill_process
\* One iteration of the loop of kill_process.
KillIter(m, page_table, i, oob) ==
    LET pte_addr == get_address(page_table, i)
        page == Load(m, pte_addr, oob)
    IN  IF page # 0 THEN MemWrite(m, page, 0) ELSE m

\* The iterations lo..hi-1 of the loop of kill_process.
RECURSIVE KillLoop(_, _, _, _, _)
KillLoop(m, page_table, lo, hi, oob) ==
    IF lo >= hi THEN m
    ELSE IF hi - lo = 1 THEN KillIter(m, page_table, lo, oob)
    ELSE LET mid == (lo + hi) \div 2
         IN  Only({KillLoop(left, page_table, mid, hi, oob) :
                      left \in {KillLoop(m, page_table, lo, mid, oob)}})

\* kill_process that also clears the directory entry of the process
kill_process_ClearsDir(m, proc_num, oob) ==
    LET page_table == get_page_table(m, proc_num)
    IN  set_page_table(
            MemWrite(KillLoop(m, page_table, 0, PAGE_SIZE, oob), page_table, 0),
            proc_num, 0)

kill_process(m, proc_num, oob) ==
    LET page_table == get_page_table(m, proc_num)
    IN  MemWrite(KillLoop(m, page_table, 0, PAGE_SIZE, oob), page_table, 0)

\* ------------------------------------------------------------ translation
pte_index(vaddr) == ShiftRight(vaddr, 8)

page_offset(vaddr) == BitAnd(vaddr, 255)

\* translate_virtual_address without the mask of the offset
translate_virtual_address_NoMask(m, proc_num, vaddr, oob) ==
    LET page_table == get_page_table(m, proc_num)
        pte_addr == get_address(page_table, pte_index(vaddr))
        page == Load(m, pte_addr, oob)
    IN  get_address(page, vaddr)

translate_virtual_address(m, proc_num, vaddr, oob) ==
    LET page_table == get_page_table(m, proc_num)
        pte_addr == get_address(page_table, pte_index(vaddr))
        page == Load(m, pte_addr, oob)
    IN  get_address(page, page_offset(vaddr))

store_value(m, proc_num, vaddr, value, oob) ==
    LET addr == translate_virtual_address(m, proc_num, vaddr, oob)
    IN  [mem |-> Store(m, addr, value), addr |-> addr, value |-> value % 256]

load_value(m, proc_num, vaddr, oob) ==
    LET addr == translate_virtual_address(m, proc_num, vaddr, oob)
    IN  [addr |-> addr, value |-> Load(m, addr, oob)]

\* kill_process reads past the end of mem when the directory byte of the
\* process is no page of the array
KillReadsPastEnd(m, proc_num) == get_page_table(m, proc_num) >= PAGE_COUNT

\* sb and lb read past the end of mem when the directory byte of the process, or
\* the page table entry it leads to, is no page of the array
TranslateReadsPastEnd(m, proc_num, vaddr) ==
    LET page_table == get_page_table(m, proc_num)
    IN  \/ page_table >= PAGE_COUNT
        \/ MemRead(m, get_address(page_table, pte_index(vaddr))) >= PAGE_COUNT

\* the bytes a command may get from its reads past the end of mem
PastEnd(reads) == IF reads THEN Garbage ELSE {0}

\* ------------------------------------------------------------ state
VARIABLES
    mem,    \* the simulated RAM (sparse above page 0)
    procs,  \* per process id: whether np created it and kp has not killed it
            \* since, the page count it was created with, whether np completed
    last,   \* the command main ran last, with what it printed
    ncmd    \* the number of commands main has run

vars == <<mem, procs, last, ncmd>>

NoProc == [live |-> FALSE, page_count |-> 0, complete |-> FALSE]

Init ==
    /\ mem = initialize_mem
    /\ procs = [p \in Procs |-> NoProc]
    /\ last = [op |-> "init"]
    /\ ncmd = 0

\* main takes the next command of a stream of at most n commands (n = 0: of
\* any length, and the commands are not counted)
NextCommand(n) ==
    IF n = 0 THEN UNCHANGED ncmd ELSE ncmd < n /\ ncmd' = ncmd + 1

\* np proc_num page_count.  any = FALSE keeps to the life cycle
\* unallocated -> live -> unallocated; any = TRUE takes every process id.
NewProcess(counts, any, n) ==
    \E proc_num \in Procs, page_count \in counts :
        /\ any \/ ~procs[proc_num].live
        /\ NextCommand(n)
        /\ LET r == new_process(mem, proc_num, page_count)
           IN  /\ mem' = r.mem
               /\ last' = [op |-> "np", proc_num |-> proc_num,
                           page_count |-> page_count, result |-> r.result,
                           allocs |-> r.allocs]
               /\ procs' = [procs EXCEPT ![proc_num] =
                              IF r.result = "OOM page table" THEN @
                              ELSE [live |-> TRUE, page_count |-> page_count,
                                    complete |-> (r.result = "ok")]]

\* kp proc_num
KillProcess(any, n) ==
    \E proc_num \in Procs :
        /\ any \/ procs[proc_num].live
        /\ NextCommand(n)
        /\ \E oob \in PastEnd(KillReadsPastEnd(mem, proc_num)) :
               mem' = kill_process(mem, proc_num, oob)
        /\ last' = [op |-> "kp", proc_num |-> proc_num]
        /\ procs' = [procs EXCEPT ![proc_num] = NoProc]

\* sb proc_num vaddr value, by a live process inside the pages it was created with
StoreValue(n) ==
    \E proc_num \in Procs, vaddr \in VAddrs, value \in StoreVals :
        /\ procs[proc_num].live
        /\ pte_index(vaddr) < procs[proc_num].page_count
        /\ NextCommand(n)
        /\ \E oob \in PastEnd(TranslateReadsPastEnd(mem, proc_num, vaddr)) :
               LET r == store_value(mem, proc_num, vaddr, value, oob)
               IN  /\ mem' = r.mem
                   /\ last' = [op |-> "sb", proc_num |-> proc_num, vaddr |-> vaddr,
                               addr |-> r.addr, value |-> r.value]
        /\ UNCHANGED procs

\* lb proc_num vaddr, by a live process inside the pages it was created with
LoadValue(n) ==
    \E proc_num \in Procs, vaddr \in VAddrs :
        /\ procs[proc_num].live
        /\ pte_index(vaddr) < procs[proc_num].page_count
        /\ NextCommand(n)
        /\ \E oob \in PastEnd(TranslateReadsPastEnd(mem, proc_num, vaddr)) :
               LET r == load_value(mem, proc_num, vaddr, oob)
               IN  last' = [op |-> "lb", proc_num |-> proc_num, vaddr |-> vaddr,
                            addr |-> r.addr, value |-> r.value]
        /\ UNCHANGED <<mem, procs>>

\* kp proc_num once more, right after kp proc_num
KillAgain(n) ==
    \E proc_num \in Procs :
        /\ last.op = "kp" /\ last.proc_num = proc_num
        /\ NextCommand(n)
        /\ \E oob \in PastEnd(KillReadsPastEnd(mem, proc_num)) :
               mem' = kill_process(mem, proc_num, oob)
        /\ last' = [op |-> "kp", proc_num |-> proc_num]
        /\ procs' = [procs EXCEPT ![proc_num] = NoProc]

\* sb proc_num vaddr value, by any process id at any address, as the last
\* command of the stream
StoreAny ==
    \E proc_num \in Procs, vaddr \in AnyVAddrs, value \in StoreVals :
        /\ last.op \notin {"sb", "lb"}
        /\ \E oob \in PastEnd(TranslateReadsPastEnd(mem, proc_num, vaddr)) :
               LET r == store_value(mem, proc_num, vaddr, value, oob)
               IN  /\ mem' = r.mem
                   /\ last' = [op |-> "sb", proc_num |-> proc_num, vaddr |-> vaddr,
                               addr |-> r.addr, value |-> r.value]
        /\ UNCHANGED <<procs, ncmd>>

\* lb proc_num vaddr, by any process id at any address, as the last command of
\* the stream
LoadAny ==
    \E proc_num \in Procs, vaddr \in AnyVAddrs :
        /\ last.op \notin {"sb", "lb"}
        /\ \E oob \in PastEnd(TranslateReadsPastEnd(mem, proc_num, vaddr)) :
               LET r == load_value(mem, proc_num, vaddr, oob)
               IN  last' = [op |-> "lb", proc_num |-> proc_num, vaddr |-> vaddr,
                            addr |-> r.addr, value |-> r.value]
        /\ UNCHANGED <<mem, procs, ncmd>>

\* np and kp only, within the life cycle; page counts small and large
NextOOM ==
    \/ NewProcess(SmallCounts \cup BigCounts, FALSE, MaxCmds)
    \/ KillProcess(FALSE, MaxCmds)

SpecOOM == Init /\ [][NextOOM]_vars

\* np and kp only, within the life cycle; small page counts
NextLife ==
    \/ NewProcess(SmallCounts, FALSE, MaxStream)
    \/ KillProcess(FALSE, MaxStream)

SpecLife == Init /\ [][NextLife]_vars

\* np and kp only, on every process id
NextAny ==
    \/ NewProcess(SmallCounts, TRUE, MaxCmds)
    \/ KillProcess(TRUE, MaxCmds)

SpecAny == Init /\ [][NextAny]_vars

\* np and kp within the life cycle, then one sb or lb by any process id at any
\* address
NextUnmapped ==
    \/ last.op \notin {"sb", "lb"} /\ NewProcess(SmallCounts, FALSE, MaxCmds)
    \/ last.op \notin {"sb", "lb"} /\ KillProcess(FALSE, MaxCmds)
    \/ StoreAny
    \/ LoadAny

SpecUnmapped == Init /\ [][NextUnmapped]_vars

\* any stream of np and kp: every process id live or not, page counts up to
\* PTP_OFFSET; main goes on to the next command as long as there is one
NextStream ==
    \/ NewProcess(SmallCounts \cup {PTP_OFFSET}, TRUE, MaxCmds)
    \/ KillProcess(TRUE, MaxCmds)

SpecStream == Init /\ [][NextStream]_vars /\ WF_vars(NextStream)

\* np and kp only, within the life cycle, with one process id more and one
\* command more than SpecLife
LeakProcs == 0 .. MaxProc

InitLeak ==
    /\ mem = initialize_mem
    /\ procs = [p \in LeakProcs |-> NoProc]
    /\ last = [op |-> "init"]
    /\ ncmd = 0

\* np proc_num page_count, of a process id that is not live
Create ==
    \E proc_num \in LeakProcs, page_count \in SmallCounts :
        /\ ~procs[proc_num].live
        /\ NextCommand(MaxStream + 1)
        /\ LET r == new_process(mem, proc_num, page_count)
           IN  /\ mem' = r.mem
               /\ last' = [op |-> "np", proc_num |-> proc_num,
                           page_count |-> page_count, result |-> r.result,
                           allocs |-> r.allocs]
               /\ procs' = [procs EXCEPT ![proc_num] =
                              IF r.result = "OOM page table" THEN @
                              ELSE [live |-> TRUE, page_count |-> page_count,
                                    complete |-> (r.result = "ok")]]

\* kp proc_num, of a live process id
Kill ==
    \E proc_num \in LeakProcs :
        /\ procs[proc_num].live
        /\ NextCommand(MaxStream + 1)
        /\ \E oob \in PastEnd(KillReadsPastEnd(mem, proc_num)) :
               mem' = kill_process(mem, proc_num, oob)
        /\ last' = [op |-> "kp", proc_num |-> proc_num]
        /\ procs' = [procs EXCEPT ![proc_num] = NoProc]

NextLeak == Create \/ Kill

SpecLeak == InitLeak /\ [][NextLeak]_vars

\* np, kp, sb and lb, within the life cycle
Next ==
    \/ NewProcess(SmallCounts, FALSE, MaxStream)
    \/ KillProcess(FALSE, MaxStream)
    \/ StoreValue(MaxStream)
    \/ LoadValue(MaxStream)

Spec == Init /\ [][Next]_vars

\* np, kp, sb and lb within the life cycle, and kp given twice in a row
NextKillTwice ==
    \/ NewProcess(SmallCounts, FALSE, MaxStream)
    \/ KillProcess(FALSE, MaxStream)
    \/ StoreValue(MaxStream)
    \/ LoadValue(MaxStream)
    \/ KillAgain(MaxStream)

SpecKillTwice == Init /\ [][NextKillTwice]_vars

\* ------------------------------------------------------------ addresses
\* get_address and the split of translate_virtual_address, applied to every
\* page and offset and to every address of the array
InitAddr ==
    /\ mem = initialize_mem
    /\ procs = [p \in Procs |-> NoProc]
    /\ ncmd = 0
    /\ last \in {[op |-> "pair", page |-> pg, offset |-> o] :
                    pg \in 0 .. (PAGE_COUNT - 1), o \in 0 .. (PAGE_SIZE - 1)}
                \cup {[op |-> "address", addr |-> a] : a \in 0 .. (MEM_SIZE - 1)}

\* get_address of a pair, or of the pair an address was split into
Compose ==
    /\ \/ last.op = "pair"
       \/ last.op = "split" /\ last.from.op = "address"
    /\ last' = [op |-> "get_address", page |-> last.page, offset |-> last.offset,
                addr |-> get_address(last.page, last.offset), from |-> last]
    /\ UNCHANGED <<mem, procs, ncmd>>

\* the split of an address, or of the address get_address made of a pair
Split ==
    /\ \/ last.op = "address"
       \/ last.op = "get_address" /\ last.from.op = "pair"
    /\ last' = [op |-> "split", addr |-> last.addr, page |-> pte_index(last.addr),
                offset |-> page_offset(last.addr), from |-> last]
    /\ UNCHANGED <<mem, procs, ncmd>>

NextAddr == Compose \/ Split

SpecAddr == InitAddr /\ [][NextAddr]_vars

\* ------------------------------------------------------------ properties
PageNumbers == 0 .. (PTP_OFFSET - 1)

\* the indices of the free-page map whose byte is 0
FreePages(m) == {i \in PageNumbers : MemRead(m, i) = 0}

Min(S) == CHOOSE x \in S : \A y \in S : x <= y

\* the nonzero entries of the page the directory names for proc_num
Mapped(m, proc_num) ==
    {MemRead(m, get_address(get_page_table(m, proc_num), i)) :
        i \in 0 .. (PAGE_SIZE - 1)} \ {0}

LiveProcs == {p \in Procs : procs[p].live}

\* C1: every page whose byte in the free-page map is nonzero has exactly one
\* owner: it is page 0, or the page table page of exactly one live process, or
\* a nonzero entry of the page table of exactly one live process.
C1_ExactlyOneOwner ==
    LET mapped == [p \in LiveProcs |-> Mapped(mem, p)]
        owners(pg) ==
            (IF pg = 0 THEN 1 ELSE 0)
            + Cardinality({p \in LiveProcs : get_page_table(mem, p) = pg})
            + Cardinality({p \in LiveProcs : pg \in mapped[p]})
    IN  \A pg \in PageNumbers : MemRead(mem, pg) # 0 => owners(pg) = 1

\* C2: whenever some byte of the free-page map is 0, allocate_next_page
\* returns the smallest index whose byte is 0, leaves 1 there and changes no
\* other byte of memory; so a page that kill_process freed is returned again
\* once it is the lowest free index.
C2_LowestFirst ==
    last.op = "np" =>
        \A j \in 1 .. Len(last.allocs) :
            LET r == last.allocs[j]
            IN  r.free # {} =>
                    /\ r.page = Min(r.free)
                    /\ r.mark = 1
                    /\ r.rest_same

\* np got back the page that was the page table of a process killed before
C2_Witness ==
    /\ last.op = "np"
    /\ \E q \in Procs \ {last.proc_num} :
           /\ ~procs[q].live
           /\ get_page_table(mem, q) # 0
           /\ \E j \in 1 .. Len(last.allocs) :
                  last.allocs[j].page = get_page_table(mem, q)

\* C3: byte 0 of the free-page map is nonzero, allocate_next_page never
\* returns 0, and new_process sets no directory entry to 0, also when
\* kill_process is given an id that was never created or was killed already.
C3_PageZeroStaysAllocated ==
    /\ MemRead(mem, 0) # 0
    /\ last.op = "np" =>
           /\ \A j \in 1 .. Len(last.allocs) : last.allocs[j].page # 0
           /\ last.result # "OOM page table" =>
                  get_page_table(mem, last.proc_num) # 0

\* C4: after new_process(p, k) that reported no out-of-memory, the page table
\* of p has exactly k nonzero entries, at the indices 0..k-1, pairwise
\* distinct, none 0 and none the page table page itself; every entry at an
\* index >= k is 0.
C4_NewProcessResult ==
    (last.op = "np" /\ last.result = "ok") =>
        LET page_table == get_page_table(mem, last.proc_num)
            entry(i) == MemRead(mem, get_address(page_table, i))
            k == last.page_count
        IN  /\ \A i \in 0 .. (k - 1) : entry(i) # 0 /\ entry(i) # page_table
            /\ \A i, j \in 0 .. (k - 1) : i # j => entry(i) # entry(j)
            /\ \A i \in k .. (PAGE_SIZE - 1) : entry(i) = 0

\* C5: kill_process(p) of a live process that new_process(p, k) created without
\* out-of-memory leaves the page table page and the k data pages of p free,
\* turns exactly k+1 bytes of the free-page map from allocated to free, and
\* changes the byte of no other page.
C5_KillReclaimsExactly ==
    [][
    (last'.op = "kp" /\ ncmd' # ncmd
        /\ procs[last'.proc_num].live /\ procs[last'.proc_num].complete) =>
        LET p == last'.proc_num
            k == procs[p].page_count
            page_table == get_page_table(mem, p)
            data == {MemRead(mem, get_address(page_table, i)) : i \in 0 .. (k - 1)}
            freed == {i \in PageNumbers : MemRead(mem, i) # 0 /\ MemRead(mem', i) = 0}
        IN  /\ MemRead(mem', page_table) = 0
            /\ \A d \in data : MemRead(mem', d) = 0
            /\ Cardinality(freed) = k + 1
            /\ \A i \in PageNumbers \ ({page_table} \cup data) :
                   MemRead(mem', i) = MemRead(mem, i)
    ]_vars

\* C6: for a live process that new_process created without out-of-memory, sb
\* at a virtual address inside its pages followed at once by lb at the same
\* address resolves to the same physical address and loads the value stored.
\* (A store that resolves past the end of mem is left out.)
C6_StoreLoadRoundTrip ==
    [][
    (last.op = "sb" /\ last'.op = "lb" /\ ncmd' # ncmd
        /\ last'.proc_num = last.proc_num /\ last'.vaddr = last.vaddr
        /\ procs[last.proc_num].live /\ procs[last.proc_num].complete
        /\ pte_index(last.vaddr) < procs[last.proc_num].page_count
        /\ last.addr < MEM_SIZE) =>
        (last'.addr = last.addr /\ last'.value = last.value)
    ]_vars

\* C7: new_process called when no byte of the free-page map is 0 reports
\* out-of-memory for the page table and leaves every byte of memory as it was.
C7_OomPageTableUnchanged ==
    [][
    (FreePages(mem) = {} /\ last'.op = "np" /\ ncmd' # ncmd) =>
        (last'.result = "OOM page table" /\ mem' = mem)
    ]_vars

C7_Witness == last.op = "np" /\ last.result = "OOM page table"

\* C8: new_process(p, k) called with exactly f free pages, 1 <= f <= k, takes
\* the lowest free page as page table and records it in the directory, writes
\* the other f-1 free pages into the entries 0..f-2 in increasing order,
\* reports out-of-memory for the data page, and leaves no byte of the
\* free-page map 0: nothing is rolled back.
C8_OomDataPageNoRollback ==
    [][
    LET F == FreePages(mem)
        f == Cardinality(F)
    IN  (last'.op = "np" /\ ncmd' # ncmd /\ 1 <= f /\ f <= last'.page_count) =>
            LET page_table == get_page_table(mem', last'.proc_num)
                entry(i) == MemRead(mem', get_address(page_table, i))
            IN  /\ last'.result = "OOM data page"
                /\ page_table = Min(F)
                /\ \A i \in 0 .. (f - 2) :
                       /\ entry(i) \in F
                       /\ Cardinality({y \in F : y < entry(i)}) = i + 1
                /\ Len(last'.allocs) = f + 1
                /\ FreePages(mem') = {}
    ]_vars

\* out-of-memory for a data page after at least one data page was mapped
C8_Witness ==
    /\ last.op = "np" /\ last.result = "OOM data page"
    /\ Len(last.allocs) >= 3

\* C9: for every page in [0, PAGE_COUNT) and offset in [0, PAGE_SIZE),
\* get_address(page, offset) lies in [0, MEM_SIZE) and splits back into
\* (page, offset); every address in [0, MEM_SIZE) splits into a page and an
\* offset in those ranges of which it is the composition.
C9_ComposeSplitInverse ==
    /\ (last.op = "get_address" /\ last.from.op = "pair") =>
           last.addr \in 0 .. (MEM_SIZE - 1)
    /\ (last.op = "split" /\ last.from.op = "get_address") =>
           (last.page = last.from.page /\ last.offset = last.from.offset)
    /\ (last.op = "split" /\ last.from.op = "address") =>
           /\ last.page \in 0 .. (PAGE_COUNT - 1)
           /\ last.offset \in 0 .. (PAGE_SIZE - 1)
    /\ (last.op = "get_address" /\ last.from.op = "split") =>
           last.addr = last.from.addr

\* the last page and the last offset composed and split again
C9_Witness ==
    /\ last.op = "split" /\ last.from.op = "get_address"
    /\ last.page = PAGE_COUNT - 1 /\ last.offset = PAGE_SIZE - 1

\* C10: kill_process(p) run twice in a row leaves memory as running it once
\* does.  (A second run that reads past the end of mem is left out.)
C10_KillIdempotent ==
    [][
    (last.op = "kp" /\ last'.op = "kp" /\ ncmd' # ncmd
        /\ last'.proc_num = last.proc_num
        /\ ~KillReadsPastEnd(mem, last.proc_num)) =>
        mem' = mem
    ]_vars

\* C11 as stated: for every process id the directory byte is 0, or the process
\* is live and the byte is the number of a page marked allocated.
C11_DirectoryInvariant ==
    \A p \in Procs :
        LET page_table == get_page_table(mem, p)
        IN  \/ page_table = 0
            \/ procs[p].live /\ MemRead(mem, page_table) # 0

\* C11, amended: the directory byte of every process id is 0 at the start; a
\* new_process(p, _) that gets a page table sets the byte of p to that page,
\* which is not 0 and is marked allocated when new_process returns; no other
\* np and no kp changes the byte, so after kill_process(p) it still holds the
\* number of the page kill_process freed.
C11_DirectoryKeptAfterKill ==
    /\ \A p \in Procs : get_page_table(mem, p) = 0
    /\ [][
       \A p \in Procs :
           IF last'.op = "np" /\ ncmd' # ncmd /\ last'.proc_num = p
                /\ last'.result # "OOM page table"
           THEN /\ get_page_table(mem', p) = last'.allocs[1].page
                /\ get_page_table(mem', p) # 0
                /\ MemRead(mem', get_page_table(mem', p)) # 0
           ELSE get_page_table(mem', p) = get_page_table(mem, p)
       ]_vars

\* kp has just freed the page table page of a process and its directory byte
\* still names that page
C11_Witness ==
    /\ last.op = "kp"
    /\ get_page_table(mem, last.proc_num) # 0
    /\ MemRead(mem, get_page_table(mem, last.proc_num)) = 0

\* C12: kill_process(p) changes no byte of memory outside the free-page map
\* [0, PTP_OFFSET): the directory byte of p and of every other process stay as
\* they were.  (A kill that reads past the end of mem is left out.)
C12_KillFrame ==
    [][
    (last'.op = "kp" /\ ncmd' # ncmd
        /\ ~KillReadsPastEnd(mem, last'.proc_num)) =>
        \A a \in (DOMAIN mem) \cup (DOMAIN mem') :
            a >= PTP_OFFSET => MemRead(mem', a) = MemRead(mem, a)
    ]_vars

\* C13: when the entry at index vaddr >> 8 of the page the directory byte of
\* p names is 0, translate_virtual_address(p, vaddr) is exactly vaddr & 255, an
\* address in [0, PAGE_SIZE): lb reads there, and sb writes its value to that
\* one byte of page 0 and to nothing else.
C13_UnmappedIntoPageZero ==
    [][
    (last'.op \in {"sb", "lb"}
        /\ get_page_table(mem, last'.proc_num) < PAGE_COUNT
        /\ MemRead(mem, get_address(get_page_table(mem, last'.proc_num),
                                    pte_index(last'.vaddr))) = 0) =>
        /\ last'.addr = page_offset(last'.vaddr)
        /\ last'.addr \in 0 .. (PAGE_SIZE - 1)
        /\ last'.op = "sb" => mem' = MemWrite(mem, last'.addr, last'.value)
        /\ last'.op = "lb" => mem' = mem /\ last'.value = MemRead(mem, last'.addr)
    ]_vars

\* sb through an unmapped entry has overwritten the directory byte of process 1
C13_Witness ==
    /\ last.op = "sb"
    /\ pte_index(last.vaddr) >= 1
    /\ last.addr = PTP_OFFSET + 1
    /\ MemRead(mem, PTP_OFFSET + 1) = last.value

\* C14: every command runs to completion, new_process(p, k) after at most
\* min(k, PTP_OFFSET - 1) + 1 calls of allocate_next_page, and every command
\* of the stream is executed in the end, also after an out-of-memory report.
C14_EveryCommandCompletes ==
    /\ [](last.op = "np" =>
            Len(last.allocs) <=
                (IF last.page_count < PTP_OFFSET - 1
                 THEN last.page_count ELSE PTP_OFFSET - 1) + 1)
    /\ <>(ncmd = MaxCmds)

\* C15: sb by a live process p, at an address inside the pages p was created
\* with, changes the value lb returns for no other live process q at any
\* address inside the pages q was created with.  (Addresses that resolve past
\* the end of mem are left out.)
C15_Isolation ==
    [][
    (last'.op = "sb" /\ ncmd' # ncmd /\ last'.addr < MEM_SIZE) =>
        \A q \in LiveProcs \ {last'.proc_num} :
            \A vaddr \in VAddrs :
                (/\ procs[q].complete
                 /\ pte_index(vaddr) < procs[q].page_count
                 /\ ~TranslateReadsPastEnd(mem, q, vaddr)
                 /\ ~TranslateReadsPastEnd(mem', q, vaddr)) =>
                    load_value(mem', q, vaddr, 0).value
                        = load_value(mem, q, vaddr, 0).value
    ]_vars

\* C16: sb by a live process at a virtual address whose page table entry is
\* nonzero writes one byte of memory and nothing else, and that byte lies
\* neither in page 0 nor in the page table page of a live process; lb changes
\* no byte.  (Addresses that resolve past the end of mem are left out.)
C16_StoreFrame ==
    [][
    /\ (last'.op = "sb" /\ ncmd' # ncmd
          /\ procs[last'.proc_num].live
          /\ ~TranslateReadsPastEnd(mem, last'.proc_num, last'.vaddr)
          /\ MemRead(mem, get_address(get_page_table(mem, last'.proc_num),
                                      pte_index(last'.vaddr))) # 0) =>
           /\ mem' = MemWrite(mem, last'.addr, last'.value)
           /\ last'.addr >= PAGE_SIZE
           /\ \A q \in LiveProcs :
                  ShiftRight(last'.addr, PAGE_SHIFT) # get_page_table(mem, q)
    /\ (last'.op = "lb" /\ ncmd' # ncmd) => mem' = mem
    ]_vars

\* C17: whenever no process is live the free-page map is as initialize_mem left
\* it: byte 0 nonzero, bytes 1 .. PTP_OFFSET-1 all 0.
C17_NoPageLeak ==
    (\A p \in DOMAIN procs : ~procs[p].live) =>
        /\ MemRead(mem, 0) # 0
        /\ \A i \in 1 .. (PTP_OFFSET - 1) : MemRead(mem, i) = 0

====
